---- MODULE Spec2Model ----
(***************************************************************************)
(* A model of async_dfd: the Node execution engine (node/node.py), the     *)
(* Graph start-up (graph/graph.py) and the scatter/gather IterablePipeline *)
(* (pipeline/label_pipeline/iterable_pipeline.py).                         *)
(*                                                                         *)
(* Scheduling is gevent's: greenlets are cooperative, so a step of the     *)
(* model runs one greenlet from one suspension point (queue get on an      *)
(* empty queue, queue put on a full queue, the fetch lock, a sleep) to the *)
(* next.                                                                   *)
(***************************************************************************)
EXTENDS Integers, Sequences, FiniteSets, Bags, TLC

(***************************************************************************)
(* Bounds of the model.                                                    *)
(***************************************************************************)
MaxWorkers == 2
MaxQueueSize == 2
MaxItems == 3
DstQueueSize == 1
MaxGraphNodes == 3
MaxLen == 3
MaxInputs == 2
MaxDecorators == 3

(***************************************************************************)
(* Program constants.                                                      *)
(***************************************************************************)
\* stop_after_attempt(5)
RetryAttempts == 5
\* the stop token end() enqueues, StopIteration(); payloads are 1, 2, ...
StopToken == 0

VARIABLES
    \* ---- Node (node/node.py) ----
    worker_num,            \* self.worker_num
    queue_size,            \* self.queue_size
    no_output,             \* self.no_output
    is_data_iterable,      \* self.is_data_iterable
    dst_nodes,             \* self.dst_nodes, in insertion order
    is_start,              \* self.is_start
    start_result,          \* outcome of start(): "none", "ok", "AssertionError"
    tasks,                 \* self.tasks: the spawned workers
    src_queue,             \* self.src_queue
    get_data_lock,         \* self.get_data_lock: 0 free, else the holder
    get_data_generator,    \* self.get_data_generator: "none", "alive", "dead"
    executing_data_queue,  \* self.executing_data_queue
    wpc,                   \* where each worker is in _func_wrapper
    wdata,                 \* each worker's local data
    wattempt,              \* attempts made by tenacity for the worker's item
    wresult,               \* each worker's local result
    wdst,                  \* position of the worker in _put_data's loop
    dst_queue,             \* the destinations' src_queue
    put_next,              \* next payload the producer puts
    put_blocked,           \* the producer is suspended in put()
    end_pc,                \* where the caller of end() is
    stops_put,             \* stop tokens end() has enqueued
    invocations,           \* history: calls of proc_func per payload
    delivered,             \* history: values enqueued to each destination
    stops_dequeued,        \* history: stop tokens taken from src_queue
    handed,                \* history: payloads in the order workers got them
    \* ---- Graph (graph/graph.py) ----
    g_size,                \* number of nodes registered in the group
    g_keylen,              \* length of the descriptions the nodes are keyed by
    g_all_nodes,           \* self.all_nodes: the registered nodes, in dict order
    g_dst,                 \* dst_nodes of each member node
    g_result,              \* outcome of Graph.start(): "none", "ok", an error
    g_spawned,             \* member nodes whose workers were spawned
    \* ---- IterablePipeline (pipeline/label_pipeline/iterable_pipeline.py) ----
    ip_mode,               \* which transform the pipeline's nodes apply
    ip_fed,                \* bag of the inputs put into the pipeline so far
    ip_queue,              \* the head node's src_queue
    ip_cur,                \* the input the head's fetch stage is flattening
    ip_pos,                \* elements of ip_cur yielded so far
    processing_tasks,      \* self.processing_tasks: label -> ProcessingTask
    ip_inflight,           \* bag of labelled fragments between head fetch and tail put
    ip_forwarded,          \* what the tail's wrapper passed on to put_func
    ip_recorded,           \* history: per input content and slot, the results recorded
    \* ---- wiring among several nodes (Node.set_destination) ----
    w_dst,                 \* dst_nodes of each node: name -> node, 0 for no entry
    w_src,                 \* src_nodes of each node: name -> node, 0 for no entry
    \* ---- the proc-decorator chain (Node._setup_decorators) ----
    proc_decorators,       \* self.proc_decorators, inner to outer
    pd_registered,         \* history: the decorators in registration order
    pd_setup               \* start() has run _setup_decorators

nodeVars == <<worker_num, queue_size, no_output, dst_nodes, is_start,
              start_result, tasks, src_queue, get_data_lock,
              get_data_generator, executing_data_queue, wpc, wdata, wattempt,
              wresult, wdst, dst_queue, put_next, put_blocked, end_pc,
              stops_put, invocations, delivered, stops_dequeued,
              is_data_iterable, handed>>

graphVars == <<g_size, g_keylen, g_all_nodes, g_dst, g_result, g_spawned>>

iterVars == <<ip_mode, ip_fed, ip_queue, ip_cur, ip_pos, processing_tasks,
              ip_inflight, ip_forwarded, ip_recorded>>

wireVars == <<w_dst, w_src>>

decVars == <<proc_decorators, pd_registered, pd_setup>>

vars == <<nodeVars, graphVars, iterVars, wireVars, decVars>>

\* what the actions of one component leave alone
nodeOthers == <<graphVars, iterVars, wireVars, decVars>>
graphOthers == <<nodeVars, iterVars, wireVars, decVars>>
iterOthers == <<nodeVars, graphVars, wireVars, decVars>>
wireOthers == <<nodeVars, graphVars, iterVars, decVars>>
decOthers == <<nodeVars, graphVars, iterVars, wireVars>>

(***************************************************************************)
(* Values.                                                                 *)
(***************************************************************************)
\* the largest pool end() is studied with: one worker more than the pools
\* payloads are run through
MaxPool == MaxWorkers + 1
Workers == 1..MaxPool
Items == 1..MaxItems
\* the node under study and the nodes it can be wired to
NodeName == "A"
Dst == {"B", "C"}
\* a destination whose routing predicate can raise
RaisingDst == "D"
AllDst == Dst \cup {RaisingDst}

NoResult == [kind |-> "none", data |-> 0, node |-> "", cause |-> ""]
Retry == [kind |-> "retry", data |-> 0, node |-> "", cause |-> ""]
Value(v) == [kind |-> "value", data |-> v, node |-> "", cause |-> ""]
NodeProcessingError(d, name, cause) ==
    [kind |-> "error", data |-> d, node |-> name, cause |-> cause]

\* isinstance(data, StopIteration)
IsStop(x) == x = StopToken

RECURSIVE RemoveFirst(_, _)
\* list.remove(x): drops the first element equal to x
RemoveFirst(s, x) ==
    IF s = <<>> THEN <<>>
    ELSE IF Head(s) = x THEN Tail(s)
    ELSE <<Head(s)>> \o RemoveFirst(Tail(s), x)

Min(a, b) == IF a < b THEN a ELSE b

(***************************************************************************)
(* The user's code: the transform and the routing predicates.              *)
(***************************************************************************)
\* what the n-th call of the transform does on payload d
proc_func(d, n) ==
    CASE (d - 1) % 4 = 0 -> "raise"
      [] (d - 1) % 4 = 1 -> IF n = 1 THEN "raise" ELSE "ok"
      [] (d - 1) % 4 = 2 -> "stop"
      [] OTHER -> "ok"
\* the value a successful call returns
UserValue(d) == d * 10

\* node.criteria(src, data) of each destination: B keeps the default
\* accept-all predicate, C accepts only successful values, D is
\* `lambda src, data: data > 0`, true of every successful value
criteria(node, res) ==
    IF node = "B" THEN TRUE ELSE res.kind = "value"
\* D's comparison raises TypeError on a NodeProcessingError
criteria_raises(node, res) ==
    node = RaisingDst /\ res.kind = "error"

\* isinstance(data, Iterable) of the payloads: with is_data_iterable set
\* the producer puts the 1-tuple (d,) for an odd d and the int d for an
\* even d
IsIterable(d) == d % 2 = 1

(***************************************************************************)
(* Node.__init__                                                           *)
(***************************************************************************)
NodeInit ==
    /\ worker_num \in 1..MaxPool
    /\ queue_size \in 1..MaxQueueSize
    /\ no_output \in BOOLEAN
    /\ is_data_iterable \in BOOLEAN
    /\ dst_nodes = <<>>
    /\ is_start = FALSE
    /\ start_result = "none"
    /\ tasks = {}
    /\ src_queue = <<>>
    /\ get_data_lock = 0
    /\ get_data_generator = "none"
    /\ executing_data_queue = <<>>
    /\ wpc = [w \in Workers |-> "none"]
    /\ wdata = [w \in Workers |-> 0]
    /\ wattempt = [w \in Workers |-> 0]
    /\ wresult = [w \in Workers |-> NoResult]
    /\ wdst = [w \in Workers |-> 0]
    /\ dst_queue = [d \in AllDst |-> <<>>]
    /\ put_next = 1
    /\ put_blocked = FALSE
    /\ end_pc = "idle"
    /\ stops_put = 0
    /\ invocations = [i \in Items |-> 0]
    /\ delivered = [d \in AllDst |-> EmptyBag]
    /\ stops_dequeued = 0
    /\ handed = <<>>

(***************************************************************************)
(* The proc-decorator chain (Node.add_proc_decorator, _setup_decorators).  *)
(***************************************************************************)
label_proc_decorator == "label_proc_decorator"
skip_data_decorator == "skip_data_decorator"
\* the decorators a caller can register: the two of the engine and two of
\* its own
Decorators ==
    {label_proc_decorator, skip_data_decorator, "deco_a", "deco_b"}

\* decorator in list
InList(decorator, list) ==
    \E k \in 1..Len(list) : list[k] = decorator

\* set_top_decorator(decorator) on new_decorators: when the decorator was
\* registered, list.remove drops its first occurrence and it is appended
set_top_decorator(decorator, registered, new_decorators) ==
    IF InList(decorator, registered)
    THEN Append(RemoveFirst(new_decorators, decorator), decorator)
    ELSE new_decorators

\* Node._rearrange_proc_decorator, the first step of _setup_decorators:
\* the new value of self.proc_decorators, which is then applied in list
\* order, the last entry outermost
_rearrange_proc_decorator(registered) ==
    set_top_decorator(skip_data_decorator, registered,
        set_top_decorator(label_proc_decorator, registered, registered))

\* no decorator is registered after construction
DecInit ==
    /\ proc_decorators = <<>>
    /\ pd_registered = <<>>
    /\ pd_setup = FALSE

\* Node.add_proc_decorator(decorator), before start()
AddProcDecorator(decorator) ==
    /\ start_result = "none"
    /\ Len(proc_decorators) < MaxDecorators
    /\ proc_decorators' = Append(proc_decorators, decorator)
    /\ pd_registered' = Append(pd_registered, decorator)
    /\ UNCHANGED <<decOthers, pd_setup>>

(***************************************************************************)
(* Wiring and start.                                                       *)
(***************************************************************************)
InDst(d) == \E k \in 1..Len(dst_nodes) : dst_nodes[k] = d

\* Node.set_destination: self.dst_nodes[node.__name__] = node
SetDestination(d) ==
    /\ start_result = "none"
    /\ dst_nodes' = IF InDst(d) THEN dst_nodes ELSE Append(dst_nodes, d)
    /\ UNCHANGED <<nodeOthers, is_data_iterable, handed,
                   worker_num, queue_size, no_output, is_start, start_result,
                   tasks, src_queue, get_data_lock, get_data_generator,
                   executing_data_queue, wpc, wdata, wattempt, wresult, wdst,
                   dst_queue, put_next, put_blocked, end_pc, stops_put,
                   invocations, delivered, stops_dequeued>>

\* a plausible slip: only the no_output branch is checked
ValidateNoOutputOnly ==
    IF no_output THEN Len(dst_nodes) = 0 ELSE TRUE
\* Node._validate_destinations: TRUE when both asserts pass
_validate_destinations ==
    IF no_output THEN Len(dst_nodes) = 0 ELSE Len(dst_nodes) > 0

\* Node.start: validation, then _setup_decorators, then _spawn_workers
\* (the workers first run when the caller next suspends, so they find
\* is_start set); a failed assert leaves start() before the decorators are
\* set up
Start ==
    /\ start_result = "none"
    /\ IF _validate_destinations
       THEN /\ start_result' = "ok"
            /\ proc_decorators' = _rearrange_proc_decorator(proc_decorators)
            /\ pd_setup' = TRUE
            /\ tasks' = 1..worker_num
            /\ wpc' = [w \in Workers |->
                         IF w \in 1..worker_num THEN "loop" ELSE "none"]
            /\ get_data_generator' = "alive"
            /\ is_start' = TRUE
       ELSE /\ start_result' = "AssertionError"
            /\ UNCHANGED <<proc_decorators, pd_setup, tasks, wpc,
                           get_data_generator, is_start>>
    /\ UNCHANGED <<graphVars, iterVars, wireVars, pd_registered,
                   is_data_iterable, handed,
                   worker_num, queue_size, no_output, dst_nodes, src_queue,
                   get_data_lock, executing_data_queue, wdata, wattempt,
                   wresult, wdst, dst_queue, put_next, put_blocked, end_pc,
                   stops_put, invocations, delivered, stops_dequeued>>

(***************************************************************************)
(* The producer: Node.put                                                  *)
(***************************************************************************)
\* a plausible slip: the queue is built without its capacity
HasRoomUnbounded(q) == TRUE
\* gevent Queue(self.queue_size): put() goes through while qsize < maxsize
HasRoom(q) == Len(q) < queue_size

\* put(data) is called: the payload is enqueued, or the caller suspends
PutCall ==
    /\ end_pc = "idle"
    /\ ~put_blocked
    /\ put_next <= MaxItems
    /\ IF HasRoom(src_queue)
       THEN /\ src_queue' = Append(src_queue, put_next)
            /\ put_next' = put_next + 1
            /\ UNCHANGED put_blocked
       ELSE /\ put_blocked' = TRUE
            /\ UNCHANGED <<src_queue, put_next>>
    /\ UNCHANGED <<nodeOthers, is_data_iterable, handed,
                   worker_num, queue_size, no_output, dst_nodes, is_start,
                   start_result, tasks, get_data_lock, get_data_generator,
                   executing_data_queue, wpc, wdata, wattempt, wresult, wdst,
                   dst_queue, end_pc, stops_put, invocations, delivered,
                   stops_dequeued>>

\* the suspended put() resumes once the queue has a free slot
PutResume ==
    /\ put_blocked
    /\ HasRoom(src_queue)
    /\ src_queue' = Append(src_queue, put_next)
    /\ put_next' = put_next + 1
    /\ put_blocked' = FALSE
    /\ UNCHANGED <<nodeOthers, is_data_iterable, handed,
                   worker_num, queue_size, no_output, dst_nodes, is_start,
                   start_result, tasks, get_data_lock, get_data_generator,
                   executing_data_queue, wpc, wdata, wattempt, wresult, wdst,
                   dst_queue, end_pc, stops_put, invocations, delivered,
                   stops_dequeued>>

(***************************************************************************)
(* Node.end                                                                *)
(***************************************************************************)
Stops(k) == [i \in 1..k |-> StopToken]
\* how many of the remaining stop tokens fit before put() suspends
StopsThatFit == Min(worker_num - stops_put, queue_size - Len(src_queue))

\* AbstractNode.end(), which Node.end calls first: the value of is_start
\* after it.  The flag is not cleared (node.py line 79: "Need to wait for
\* drain, so not set is_start to False").
AbstractNodeEnd(flag) == flag

\* end() is called by a caller whose own puts have completed; the loop
\* enqueues stop tokens until put() suspends on a full queue
EndCall ==
    /\ is_start
    /\ end_pc = "idle"
    /\ ~put_blocked
    /\ is_start' = AbstractNodeEnd(is_start)
    /\ src_queue' = src_queue \o Stops(StopsThatFit)
    /\ stops_put' = stops_put + StopsThatFit
    /\ end_pc' = IF stops_put' = worker_num THEN "joining" ELSE "putting"
    /\ UNCHANGED <<nodeOthers, is_data_iterable, handed,
                   worker_num, queue_size, no_output, dst_nodes,
                   start_result, tasks, get_data_lock, get_data_generator,
                   executing_data_queue, wpc, wdata, wattempt, wresult, wdst,
                   dst_queue, put_next, put_blocked, invocations, delivered,
                   stops_dequeued>>

\* the suspended put() of a stop token resumes, and the loop goes on
EndPutResume ==
    /\ end_pc = "putting"
    /\ HasRoom(src_queue)
    /\ src_queue' = src_queue \o Stops(StopsThatFit)
    /\ stops_put' = stops_put + StopsThatFit
    /\ end_pc' = IF stops_put' = worker_num THEN "joining" ELSE "putting"
    /\ UNCHANGED <<nodeOthers, is_data_iterable, handed,
                   worker_num, queue_size, no_output, dst_nodes, is_start,
                   start_result, tasks, get_data_lock, get_data_generator,
                   executing_data_queue, wpc, wdata, wattempt, wresult, wdst,
                   dst_queue, put_next, put_blocked, invocations, delivered,
                   stops_dequeued>>

AllWorkersDone == tasks # {} /\ \A w \in tasks : wpc[w] = "done"

\* gevent.joinall(self.tasks) returns
EndJoin ==
    /\ end_pc = "joining"
    /\ AllWorkersDone
    /\ end_pc' = "returned"
    /\ UNCHANGED <<nodeOthers, is_data_iterable, handed,
                   worker_num, queue_size, no_output, dst_nodes, is_start,
                   start_result, tasks, src_queue, get_data_lock,
                   get_data_generator, executing_data_queue, wpc, wdata,
                   wattempt, wresult, wdst, dst_queue, put_next, put_blocked,
                   stops_put, invocations, delivered, stops_dequeued>>

(***************************************************************************)
(* The transform stage: Node._error_decorator                              *)
(***************************************************************************)
\* a plausible slip: the retry budget is one attempt short
StopOneShort(n) == n >= RetryAttempts - 1
\* tenacity's stop=stop_after_attempt(5): no attempt follows the n-th
stop_after_attempt(n) == n >= RetryAttempts

\* a plausible slip: a StopIteration of the transform is retried like any
\* other exception
FinalWrapperRetriesStop(d, n) ==
    LET out == proc_func(d, n) IN
    CASE out = "ok" -> Value(UserValue(d))
      [] OTHER -> IF stop_after_attempt(n)
                  THEN NodeProcessingError(d, NodeName, "RetryError")
                  ELSE Retry

\* final_wrapper around the retried error_wrapper, at the n-th call of the
\* transform on d: the value returned, or Retry when tenacity sleeps and
\* calls the transform again.  A StopIteration is not retried
\* (retry_if_not_exception_type); whatever error_wrapper raises in the end
\* becomes a NodeProcessingError value.
final_wrapper(d, n) ==
    LET out == proc_func(d, n) IN
    CASE out = "ok" -> Value(UserValue(d))
      [] out = "stop" -> NodeProcessingError(d, NodeName, "StopIteration")
      [] OTHER -> IF stop_after_attempt(n)
                  THEN NodeProcessingError(d, NodeName, "RetryError")
                  ELSE Retry

(***************************************************************************)
(* The put stage: Node._put_data                                           *)
(***************************************************************************)
RECURSIVE PutDataDropErrors(_, _, _, _)
\* a plausible slip: error values are not forwarded
PutDataDropErrors(j, res, qs, del) ==
    IF j > Len(dst_nodes)
    THEN [next |-> j, qs |-> qs, del |-> del, exc |-> FALSE]
    ELSE LET node == dst_nodes[j] IN
         IF ~criteria(node, res) \/ res.kind = "error"
         THEN PutDataDropErrors(j + 1, res, qs, del)
         ELSE IF Len(qs[node]) < DstQueueSize
              THEN PutDataDropErrors(j + 1, res,
                       [qs EXCEPT ![node] = Append(@, res)],
                       [del EXCEPT ![node] = @ (+) SetToBag({res})])
              ELSE [next |-> j, qs |-> qs, del |-> del, exc |-> FALSE]

RECURSIVE _put_data(_, _, _, _)
\* the loop over self.dst_nodes.values() from position j on: node.put(data)
\* for each destination whose criteria accepts; it runs on until a
\* destination's queue is full, where the worker suspends at position next,
\* or until a criteria raises (exc), which ends the loop
_put_data(j, res, qs, del) ==
    IF j > Len(dst_nodes)
    THEN [next |-> j, qs |-> qs, del |-> del, exc |-> FALSE]
    ELSE LET node == dst_nodes[j] IN
         IF criteria_raises(node, res)
         THEN [next |-> j, qs |-> qs, del |-> del, exc |-> TRUE]
         ELSE IF ~criteria(node, res)
         THEN _put_data(j + 1, res, qs, del)
         ELSE IF Len(qs[node]) < DstQueueSize
              THEN _put_data(j + 1, res,
                       [qs EXCEPT ![node] = Append(@, res)],
                       [del EXCEPT ![node] = @ (+) SetToBag({res})])
              ELSE [next |-> j, qs |-> qs, del |-> del, exc |-> FALSE]

(***************************************************************************)
(* The fetch stage: Node._get_data and Node._get_one_data                  *)
(***************************************************************************)
\* a plausible slip: the stop token is not told from a payload
GetOneDataYieldsAll(data) == "yield"
\* _get_one_data is a generator: the StopIteration it raises for a stop
\* token leaves it as a RuntimeError (PEP 479); with is_data_iterable set
\* the assert fails on a payload that is not iterable, and the one element
\* of a 1-tuple is yielded; otherwise the payload is yielded
_get_one_data(data) ==
    IF IsStop(data) THEN "RuntimeError"
    ELSE IF is_data_iterable /\ ~IsIterable(data) THEN "AssertionError"
    ELSE "yield"

\* a plausible slip: the newest entry of the queue is taken, not the oldest
TakeLast(w) ==
    LET data == src_queue[Len(src_queue)] IN
    /\ src_queue' = SubSeq(src_queue, 1, Len(src_queue) - 1)
    /\ get_data_lock' = 0
    /\ IF _get_one_data(data) # "yield"
       THEN /\ get_data_generator' = "dead"
            /\ stops_dequeued' =
                  IF IsStop(data) THEN stops_dequeued + 1 ELSE stops_dequeued
            /\ wpc' = [wpc EXCEPT ![w] = "loop"]
            /\ UNCHANGED <<wdata, executing_data_queue, handed>>
       ELSE /\ wdata' = [wdata EXCEPT ![w] = data]
            /\ executing_data_queue' = Append(executing_data_queue, data)
            /\ handed' = Append(handed, data)
            /\ wpc' = [wpc EXCEPT ![w] = "proc"]
            /\ UNCHANGED <<get_data_generator, stops_dequeued>>
\* src_queue.get() returns the head to the generator, inside the lock.
\* RuntimeError, AssertionError: the exception escapes through `yield
\* from`, the shared generator is finished, the lock is released,
\* _func_wrapper logs it ("Not get data") and goes to its next iteration.
\* yield: the lock is released and the payload is registered in
\* executing_data_queue.
TakeHead(w) ==
    LET data == Head(src_queue) IN
    /\ src_queue' = Tail(src_queue)
    /\ get_data_lock' = 0
    /\ IF _get_one_data(data) # "yield"
       THEN /\ get_data_generator' = "dead"
            /\ stops_dequeued' =
                  IF IsStop(data) THEN stops_dequeued + 1 ELSE stops_dequeued
            /\ wpc' = [wpc EXCEPT ![w] = "loop"]
            /\ UNCHANGED <<wdata, executing_data_queue, handed>>
       ELSE /\ wdata' = [wdata EXCEPT ![w] = data]
            /\ executing_data_queue' = Append(executing_data_queue, data)
            /\ handed' = Append(handed, data)
            /\ wpc' = [wpc EXCEPT ![w] = "proc"]
            /\ UNCHANGED <<get_data_generator, stops_dequeued>>

\* next(self.get_data_generator) by the worker that has the lock
NextGetData(w) ==
    IF get_data_generator # "alive" \/ ~is_start
    THEN \* a finished generator: StopIteration, caught by the break
         /\ wpc' = [wpc EXCEPT ![w] = "done"]
         /\ get_data_lock' = 0
         /\ UNCHANGED <<src_queue, get_data_generator, stops_dequeued, wdata,
                        executing_data_queue, handed>>
    ELSE IF src_queue = <<>>
    THEN \* src_queue.get() suspends, the lock stays held
         /\ wpc' = [wpc EXCEPT ![w] = "fetch"]
         /\ get_data_lock' = w
         /\ UNCHANGED <<src_queue, get_data_generator, stops_dequeued, wdata,
                        executing_data_queue, handed>>
    ELSE TakeHead(w)

(***************************************************************************)
(* The worker: Node._func_wrapper                                          *)
(***************************************************************************)
\* top of the loop, after sleep(0)
WorkerLoop(w) ==
    /\ wpc[w] = "loop"
    /\ IF ~is_start
       THEN /\ wpc' = [wpc EXCEPT ![w] = "done"]
            /\ UNCHANGED <<src_queue, get_data_lock, get_data_generator,
                           stops_dequeued, wdata, executing_data_queue,
                           handed>>
       ELSE IF Len(executing_data_queue) >= worker_num
       THEN UNCHANGED <<wpc, src_queue, get_data_lock, get_data_generator,
                        stops_dequeued, wdata, executing_data_queue, handed>>
       ELSE IF get_data_lock # 0
       THEN /\ wpc' = [wpc EXCEPT ![w] = "wait_lock"]
            /\ UNCHANGED <<src_queue, get_data_lock, get_data_generator,
                           stops_dequeued, wdata, executing_data_queue,
                           handed>>
       ELSE NextGetData(w)
    /\ UNCHANGED <<nodeOthers, is_data_iterable,
                   worker_num, queue_size, no_output, dst_nodes, is_start,
                   start_result, tasks, wattempt, wresult, wdst, dst_queue,
                   put_next, put_blocked, end_pc, stops_put, invocations,
                   delivered>>

\* the worker suspended on get_data_lock gets it
LockAcquire(w) ==
    /\ wpc[w] = "wait_lock"
    /\ get_data_lock = 0
    /\ NextGetData(w)
    /\ UNCHANGED <<nodeOthers, is_data_iterable,
                   worker_num, queue_size, no_output, dst_nodes, is_start,
                   start_result, tasks, wattempt, wresult, wdst, dst_queue,
                   put_next, put_blocked, end_pc, stops_put, invocations,
                   delivered>>

\* the worker suspended in src_queue.get() is handed an entry
QueueGet(w) ==
    /\ wpc[w] = "fetch"
    /\ src_queue # <<>>
    /\ TakeHead(w)
    /\ UNCHANGED <<nodeOthers, is_data_iterable,
                   worker_num, queue_size, no_output, dst_nodes, is_start,
                   start_result, tasks, wattempt, wresult, wdst, dst_queue,
                   put_next, put_blocked, end_pc, stops_put, invocations,
                   delivered>>

\* one call of the transform inside self._proc_data(data)
WorkerProc(w) ==
    /\ wpc[w] = "proc"
    /\ LET d == wdata[w]
           n == wattempt[w] + 1
           r == final_wrapper(d, n)
       IN /\ invocations' = [invocations EXCEPT ![d] = @ + 1]
          /\ IF r = Retry
             THEN /\ wattempt' = [wattempt EXCEPT ![w] = n]
                  /\ UNCHANGED <<wpc, wresult, wdst>>
             ELSE /\ wattempt' = [wattempt EXCEPT ![w] = 0]
                  /\ wresult' = [wresult EXCEPT ![w] = r]
                  /\ wdst' = [wdst EXCEPT ![w] = 1]
                  /\ wpc' = [wpc EXCEPT ![w] = "put"]
    /\ UNCHANGED <<nodeOthers, is_data_iterable, handed,
                   worker_num, queue_size, no_output, dst_nodes, is_start,
                   start_result, tasks, src_queue, get_data_lock,
                   get_data_generator, executing_data_queue, wdata, dst_queue,
                   put_next, put_blocked, end_pc, stops_put, delivered,
                   stops_dequeued>>

\* a plausible slip: the removal follows _put_data without a finally
\* clause, so an exception of the put stage skips it
WorkerPutNoFinally(w) ==
    /\ wpc[w] = "put"
    /\ LET r == _put_data(wdst[w], wresult[w], dst_queue, delivered) IN
       /\ r.next > wdst[w] \/ r.next > Len(dst_nodes) \/ r.exc
       /\ dst_queue' = r.qs
       /\ delivered' = r.del
       /\ IF r.next > Len(dst_nodes) \/ r.exc
          THEN /\ executing_data_queue' =
                      IF r.exc THEN executing_data_queue
                      ELSE RemoveFirst(executing_data_queue, wdata[w])
               /\ wpc' = [wpc EXCEPT ![w] = "loop"]
               /\ wdata' = [wdata EXCEPT ![w] = 0]
               /\ wresult' = [wresult EXCEPT ![w] = NoResult]
               /\ wdst' = [wdst EXCEPT ![w] = 0]
          ELSE /\ wdst' = [wdst EXCEPT ![w] = r.next]
               /\ UNCHANGED <<executing_data_queue, wpc, wdata, wresult>>
    /\ UNCHANGED <<nodeOthers, is_data_iterable, handed,
                   worker_num, queue_size, no_output, dst_nodes, is_start,
                   start_result, tasks, src_queue, get_data_lock,
                   get_data_generator, wattempt, put_next, put_blocked,
                   end_pc, stops_put, invocations, stops_dequeued>>

\* self._put_data(result), then the finally clause and sleep(0); an
\* exception raised by a criteria leaves _put_data through the finally
\* clause and is logged by the handler of line 170
WorkerPut(w) ==
    /\ wpc[w] = "put"
    /\ LET r == _put_data(wdst[w], wresult[w], dst_queue, delivered) IN
       /\ r.next > wdst[w] \/ r.next > Len(dst_nodes) \/ r.exc
       /\ dst_queue' = r.qs
       /\ delivered' = r.del
       /\ IF r.next > Len(dst_nodes) \/ r.exc
          THEN /\ executing_data_queue' =
                      RemoveFirst(executing_data_queue, wdata[w])
               /\ wpc' = [wpc EXCEPT ![w] = "loop"]
               /\ wdata' = [wdata EXCEPT ![w] = 0]
               /\ wresult' = [wresult EXCEPT ![w] = NoResult]
               /\ wdst' = [wdst EXCEPT ![w] = 0]
          ELSE /\ wdst' = [wdst EXCEPT ![w] = r.next]
               /\ UNCHANGED <<executing_data_queue, wpc, wdata, wresult>>
    /\ UNCHANGED <<nodeOthers, is_data_iterable, handed,
                   worker_num, queue_size, no_output, dst_nodes, is_start,
                   start_result, tasks, src_queue, get_data_lock,
                   get_data_generator, wattempt, put_next, put_blocked,
                   end_pc, stops_put, invocations, stops_dequeued>>

\* a worker of destination d takes an entry from d's queue
DstGet(d) ==
    /\ dst_queue[d] # <<>>
    /\ dst_queue' = [dst_queue EXCEPT ![d] = Tail(@)]
    /\ UNCHANGED <<nodeOthers, is_data_iterable, handed,
                   worker_num, queue_size, no_output, dst_nodes, is_start,
                   start_result, tasks, src_queue, get_data_lock,
                   get_data_generator, executing_data_queue, wpc, wdata,
                   wattempt, wresult, wdst, put_next, put_blocked, end_pc,
                   stops_put, invocations, delivered, stops_dequeued>>

(***************************************************************************)
(* Graph (graph/graph.py).  A group holds nodes 1..g_size, registered      *)
(* under their descriptions in that order.                                 *)
(***************************************************************************)
GraphNodes == 1..MaxGraphNodes
\* the descriptions nodes are registered under: strings of 1, 2 or 3
\* characters
KeyLens == {1, 2, 3}
Description(n, len) ==
    CASE len = 1 -> <<"a", "b", "c", "d", "e">>[n]
      [] len = 2 -> <<"n1", "n2", "n3", "n4", "n5">>[n]
      [] OTHER -> <<"src", "mid", "out", "aux", "end">>[n]

CycleError == "ValueError: Graph has at least one cycle"
UnpackError == "ValueError: values to unpack"
AttributeError == "AttributeError: 'str' object has no attribute 'dst_nodes'"

\* the group after construction: nodes 1..g_size registered, nothing wired
GraphInit ==
    /\ g_size \in 0..MaxGraphNodes
    /\ g_keylen \in KeyLens
    /\ g_all_nodes = [k \in 1..g_size |-> k]
    /\ g_dst = [n \in GraphNodes |-> {}]
    /\ g_result = "none"
    /\ g_spawned = {}

\* the graph variables while another component is studied
GraphIdle ==
    /\ g_size = 0
    /\ g_keylen = 1
    /\ g_all_nodes = <<>>
    /\ g_dst = [n \in GraphNodes |-> {}]
    /\ g_result = "none"
    /\ g_spawned = {}

\* a.set_destination(b) between two member nodes, before start
GraphSetDestination(a, b) ==
    /\ g_result = "none"
    /\ a \in 1..g_size /\ b \in 1..g_size
    /\ b \notin g_dst[a]
    /\ g_dst' = [g_dst EXCEPT ![a] = @ \cup {b}]
    /\ UNCHANGED <<graphOthers, g_size, g_keylen, g_all_nodes, g_result,
                   g_spawned>>

\* Graph.topological_sort(all_nodes).  Line 18, `for desc, node in
\* all_nodes`, iterates the keys of the dict and unpacks each key, a str,
\* into (desc, node): a key that is not 2 characters long raises ValueError;
\* a 2-character key binds node to a character, and line 20 reads
\* node.dst_nodes of that str and raises AttributeError.  The loop body is
\* skipped only for an empty mapping, for which the work queue and the
\* sorted mapping stay empty, the size test of line 34 passes and the empty
\* order is returned.
topological_sort(all_nodes) ==
    IF all_nodes = <<>>
    THEN [status |-> "ok", order |-> <<>>]
    ELSE IF Len(Description(all_nodes[1], g_keylen)) # 2
    THEN [status |-> UnpackError, order |-> <<>>]
    ELSE [status |-> AttributeError, order |-> <<>>]

\* NodeGroup.start(): every member node is started, in mapping order
NodeGroupStart(order) == {order[k] : k \in 1..Len(order)}

\* Graph.start(): the order is computed first; an exception raised by
\* topological_sort leaves start() before super().start() is reached
GraphStart ==
    /\ g_result = "none"
    /\ LET r == topological_sort(g_all_nodes) IN
       IF r.status = "ok"
       THEN /\ g_all_nodes' = r.order
            /\ g_spawned' = NodeGroupStart(r.order)
            /\ g_result' = "ok"
       ELSE /\ g_result' = r.status
            /\ UNCHANGED <<g_all_nodes, g_spawned>>
    /\ UNCHANGED <<graphOthers, g_size, g_keylen, g_dst>>

(***************************************************************************)
(* IterablePipeline (pipeline/label_pipeline/iterable_pipeline.py).        *)
(* Inputs are re-iterable sequences, and the same content may be put more *)
(* than once; Python values that meet in one collection are tagged with    *)
(* their type.                                                             *)
(***************************************************************************)
PyNone == [t |-> "none", v |-> 0]
PyInt(n) == [t |-> "int", v |-> n]
PyBool(b) == [t |-> "bool", v |-> IF b THEN 1 ELSE 0]

SubRange(a, b) == [k \in 1..(b - a + 1) |-> a + k - 1]
\* the inputs fed to the pipeline: the prefixes and the suffixes of
\* (1, ..., MaxLen)
IterInputs ==
    {SubRange(1, b) : b \in 1..MaxLen} \cup {SubRange(a, MaxLen) : a \in 1..MaxLen}
IterModes == {"times10", "none_on_2"}

\* the transform of the pipeline's nodes on one element: the user's code
pipeline_func(x) ==
    IF ip_mode = "none_on_2" /\ x = 2 THEN PyNone ELSE PyInt(x * 10)

\* label.generate_label: a token derived from the content of the data
generate_label(data) == <<"label", data>>
\* LabelData of one element, tagged (task token, slot index)
FragmentData(content, token, index) ==
    [kind |-> "fragment", data |-> content,
     label |-> [task |-> token, index |-> index]]
\* LabelData((original_data, results), token)
AggregateData(original, results, token) ==
    [kind |-> "aggregate", data |-> <<original, results>>, label |-> token]

\* a Python dict, as the sequence of its (key, value) items in insertion
\* order
dict_keys(d) == {d[k].key : k \in 1..Len(d)}
\* d[key], for a key of d
dict_getitem(d, key) ==
    d[CHOOSE k \in 1..Len(d) : d[k].key = key].value
\* d[key] = value: a key of d keeps its place, a new key goes last
dict_setitem(d, key, value) ==
    IF key \in dict_keys(d)
    THEN [k \in 1..Len(d) |->
            IF d[k].key = key THEN [key |-> key, value |-> value] ELSE d[k]]
    ELSE Append(d, [key |-> key, value |-> value])

\* a plausible slip: the probe is not advanced at construction
ProcessingTaskNoProbe(data) ==
    [index |-> 0,
     over_results |-> <<>>,
     original_data |-> data,
     iter_pos |-> 0,
     is_generator_exhausted |-> FALSE,
     task_label |-> generate_label(data)]
\* ProcessingTask.__init__ on a non-empty sequence: the probe _iter has
\* consumed one element
ProcessingTask(data) ==
    [index |-> 0,
     over_results |-> <<>>,
     original_data |-> data,
     iter_pos |-> 1,
     is_generator_exhausted |-> FALSE,
     task_label |-> generate_label(data)]

\* ProcessingTask.get_label: the probe advances or reports exhaustion, the
\* next slot index is issued and registered with no result
task_get_label(task) ==
    LET probed == IF task.iter_pos < Len(task.original_data)
                  THEN [task EXCEPT !.iter_pos = @ + 1]
                  ELSE [task EXCEPT !.is_generator_exhausted = TRUE]
    IN [task |-> [probed EXCEPT !.index = @ + 1,
                                !.over_results =
                                    dict_setitem(@, task.index, PyNone)],
        label |-> [task |-> task.task_label, index |-> task.index]]

IterInit ==
    /\ ip_mode \in IterModes
    /\ ip_fed = EmptyBag
    /\ ip_queue = <<>>
    /\ ip_cur = <<>>
    /\ ip_pos = 0
    /\ processing_tasks = <<>>
    /\ ip_inflight = EmptyBag
    /\ ip_forwarded = <<>>
    /\ ip_recorded = [i \in IterInputs |-> [j \in 0..(MaxLen - 1) |-> 0]]

\* the pipeline variables while another component is studied
IterIdle ==
    /\ IterInit
    /\ ip_mode = "times10"

\* pipeline.put(inp) by the pipeline's user; MaxInputs stays below the
\* head queue's capacity, so the put does not suspend
IterFeed(inp) ==
    /\ BagCardinality(ip_fed) < MaxInputs
    /\ ip_fed' = ip_fed (+) SetToBag({inp})
    /\ ip_queue' = Append(ip_queue, inp)
    /\ UNCHANGED <<iterOthers, ip_mode, ip_cur, ip_pos, processing_tasks,
                   ip_inflight, ip_forwarded, ip_recorded>>

\* IterablePipeline.get_label, called by the label stage for the element
\* drawn from data_gen: the fragment that enters the workers, and the
\* updated task registry
DrawElement(registry, data_gen, data_point) ==
    LET token == generate_label(data_gen)
        got == task_get_label(registry[token])
    IN [tasks |-> [registry EXCEPT ![token] = got.task],
        frag |-> FragmentData(data_point, got.label.task, got.label.index)]

\* a head worker's fetch finds the flattening of the previous input
\* finished and takes the next input from the queue:
\* _iterable_get_data_wrapper registers a new ProcessingTask, and the first
\* element is drawn
IterIngest ==
    /\ ip_pos = Len(ip_cur)
    /\ ip_queue # <<>>
    /\ LET iter_data == Head(ip_queue)
           new_tasks == ProcessingTask(iter_data)
           registered == (new_tasks.task_label :> new_tasks) @@ processing_tasks
           drawn == DrawElement(registered, iter_data, iter_data[1])
       IN /\ ip_queue' = Tail(ip_queue)
          /\ ip_cur' = iter_data
          /\ ip_pos' = 1
          /\ processing_tasks' = drawn.tasks
          /\ ip_inflight' = ip_inflight (+) SetToBag({drawn.frag})
    /\ UNCHANGED <<iterOthers, ip_mode, ip_fed, ip_forwarded, ip_recorded>>

\* a head worker's fetch draws the next element of the current input
IterDraw ==
    /\ ip_pos < Len(ip_cur)
    /\ LET drawn == DrawElement(processing_tasks, ip_cur, ip_cur[ip_pos + 1])
       IN /\ ip_pos' = ip_pos + 1
          /\ processing_tasks' = drawn.tasks
          /\ ip_inflight' = ip_inflight (+) SetToBag({drawn.frag})
    /\ UNCHANGED <<iterOthers, ip_mode, ip_fed, ip_queue, ip_cur,
                   ip_forwarded, ip_recorded>>

\* the completion test of _iterable_put_data_wrapper
all_results_ready(task) ==
    /\ task.is_generator_exhausted
    /\ \A k \in 1..Len(task.over_results) :
          task.over_results[k].value # PyNone

\* the list the walrus binds to over_results inside all(...):
\* [v is not None for v in task.over_results.values()]
CompletionFlags(task) ==
    [k \in 1..Len(task.over_results) |->
        PyBool(task.over_results[k].value # PyNone)]

\* _iterable_put_data_wrapper(label_data), label_data carrying content under
\* label: the result is recorded in its slot, and when all results are
\* ready the aggregate is handed to put_func.  out is what put_func gets.
_iterable_put_data_wrapper(registry, content, label) ==
    LET task == [registry[label.task] EXCEPT
                    !.over_results = dict_setitem(@, label.index, content)]
    IN [tasks |-> [registry EXCEPT ![label.task] = task],
        out |-> IF all_results_ready(task)
                THEN <<AggregateData(task.original_data,
                                     CompletionFlags(task), label.task)>>
                ELSE <<>>]

\* a tail worker's put stage receives the transformed fragment
IterTailPut(frag) ==
    /\ BagIn(frag, ip_inflight)
    /\ LET r == _iterable_put_data_wrapper(processing_tasks,
                    pipeline_func(frag.data), frag.label)
       IN /\ processing_tasks' = r.tasks
          /\ ip_forwarded' = ip_forwarded \o r.out
    /\ ip_inflight' = ip_inflight (-) SetToBag({frag})
    /\ ip_recorded' = [ip_recorded EXCEPT
                          ![frag.label.task[2]][frag.label.index] = @ + 1]
    /\ UNCHANGED <<iterOthers, ip_mode, ip_fed, ip_queue, ip_cur, ip_pos>>

\* the fragments reach the tail in any order
IterTailPutAny == \E frag \in BagToSet(ip_inflight) : IterTailPut(frag)

(***************************************************************************)
(* Wiring among several nodes (Node.set_destination).  Nodes 2 and 3 are   *)
(* built from transform functions of the same name.                        *)
(***************************************************************************)
WireNodes == 1..MaxGraphNodes
\* proc_func.__name__ of each node, which __init__ stores as self.__name__
FuncName(n) == <<"f", "g", "g", "h", "f">>[n]
WireNames == {FuncName(n) : n \in WireNodes}

\* dst_nodes and src_nodes are empty after construction
WireInit ==
    /\ w_dst = [n \in WireNodes |-> [k \in WireNames |-> 0]]
    /\ w_src = [n \in WireNodes |-> [k \in WireNames |-> 0]]

\* a.set_destination(b): a.dst_nodes[b.__name__] = b, then
\* b.src_nodes[a.__name__] = a
WireSetDestination(a, b) ==
    LET dst1 == [w_dst EXCEPT ![a][FuncName(b)] = b]
        src1 == [w_src EXCEPT ![b][FuncName(a)] = a]
    IN /\ w_dst' = dst1
       /\ w_src' = src1
       /\ UNCHANGED wireOthers

(***************************************************************************)
(* Specifications: one per component, the other components' variables      *)
(* held still.                                                             *)
(***************************************************************************)
\* the node variables while another component is studied
NodeIdle ==
    /\ NodeInit
    /\ worker_num = 1
    /\ queue_size = 1
    /\ no_output = FALSE
    /\ is_data_iterable = FALSE

\* a node built with the default is_data_iterable=False and a pool of at
\* most MaxWorkers
Init ==
    /\ NodeInit
    /\ worker_num <= MaxWorkers
    /\ ~is_data_iterable
    /\ GraphIdle /\ IterIdle /\ WireInit /\ DecInit

NodeNext ==
    \/ \E d \in Dst : SetDestination(d)
    \/ Start
    \/ PutCall
    \/ PutResume
    \/ EndCall
    \/ EndPutResume
    \/ EndJoin
    \/ \E w \in Workers : WorkerLoop(w)
    \/ \E w \in Workers : LockAcquire(w)
    \/ \E w \in Workers : QueueGet(w)
    \/ \E w \in Workers : WorkerProc(w)
    \/ \E w \in Workers : WorkerPut(w)
    \/ \E d \in Dst : DstGet(d)

Next == NodeNext

Spec == Init /\ [][Next]_vars

\* the same node with pools of up to MaxPool workers
InitEnd ==
    /\ NodeInit
    /\ ~is_data_iterable
    /\ GraphIdle /\ IterIdle /\ WireInit /\ DecInit

\* one worker's greenlet
WorkerStep(w) ==
    \/ WorkerLoop(w)
    \/ LockAcquire(w)
    \/ QueueGet(w)
    \/ WorkerProc(w)
    \/ WorkerPut(w)

\* gevent runs every greenlet that is ready: the workers, the caller of
\* end(), and the consumers that drain the destinations
FairSpecEnd ==
    /\ InitEnd
    /\ [][Next]_vars
    /\ \A w \in Workers : WF_vars(WorkerStep(w))
    /\ WF_vars(EndPutResume)
    /\ WF_vars(EndJoin)
    /\ \A d \in AllDst : WF_vars(DstGet(d))

\* a node with output, built with either value of is_data_iterable, that
\* can be wired to B and to the destination whose predicate raises
FaultDst == {"B", RaisingDst}

InitFaults ==
    /\ NodeInit
    /\ worker_num <= MaxWorkers
    /\ ~no_output
    /\ GraphIdle /\ IterIdle /\ WireInit /\ DecInit

NextFaults ==
    \/ \E d \in FaultDst : SetDestination(d)
    \/ Start
    \/ PutCall
    \/ PutResume
    \/ EndCall
    \/ EndPutResume
    \/ EndJoin
    \/ \E w \in Workers : WorkerLoop(w)
    \/ \E w \in Workers : LockAcquire(w)
    \/ \E w \in Workers : QueueGet(w)
    \/ \E w \in Workers : WorkerProc(w)
    \/ \E w \in Workers : WorkerPut(w)
    \/ \E d \in FaultDst : DstGet(d)

SpecFaults == InitFaults /\ [][NextFaults]_vars

InitGraph ==
    NodeIdle /\ GraphInit /\ IterIdle /\ WireInit /\ DecInit

GraphNext ==
    \/ \E a, b \in GraphNodes : GraphSetDestination(a, b)
    \/ GraphStart

NextGraph == GraphNext

SpecGraph == InitGraph /\ [][NextGraph]_vars

InitIter ==
    NodeIdle /\ GraphIdle /\ IterInit /\ WireInit /\ DecInit

IterNext ==
    \/ \E inp \in IterInputs : IterFeed(inp)
    \/ IterIngest
    \/ IterDraw
    \/ IterTailPutAny

SpecIter == InitIter /\ [][IterNext]_vars

\* the workers of the pipeline's nodes keep being scheduled
FairSpecIter ==
    /\ SpecIter
    /\ WF_vars(IterIngest)
    /\ WF_vars(IterDraw)
    /\ WF_vars(IterTailPutAny)

InitWire == NodeIdle /\ GraphIdle /\ IterIdle /\ WireInit /\ DecInit

WireNext == \E a, b \in WireNodes : WireSetDestination(a, b)

SpecWire == InitWire /\ [][WireNext]_vars

\* a node with one worker, with or without output, that is given
\* decorators and destinations and then started
InitDec ==
    /\ NodeInit
    /\ worker_num = 1
    /\ queue_size = 1
    /\ ~is_data_iterable
    /\ GraphIdle /\ IterIdle /\ WireInit /\ DecInit

DecNext ==
    \/ \E decorator \in Decorators : AddProcDecorator(decorator)
    \/ \E d \in Dst : SetDestination(d)
    \/ Start

SpecDec == InitDec /\ [][DecNext]_vars

(***************************************************************************)
(* Claims about the Node engine, checked under Spec.                       *)
(***************************************************************************)
Range(f) == {f[x] : x \in DOMAIN f}

\* the values final_wrapper can return for payload i
ResultsFor(i) ==
    {Value(UserValue(i)),
     NodeProcessingError(i, NodeName, "RetryError"),
     NodeProcessingError(i, NodeName, "StopIteration")}
\* the error value of payload i after the retries are spent
RetryErrorOf(i) == NodeProcessingError(i, NodeName, "RetryError")

RECURSIVE SumCopies(_, _)
SumCopies(S, B) ==
    IF S = {} THEN 0
    ELSE LET r == CHOOSE x \in S : TRUE
         IN CopiesIn(r, B) + SumCopies(S \ {r}, B)
\* how many values made from payload i were enqueued to destination d
DeliveredFor(d, i) == SumCopies(ResultsFor(i), delivered[d])

\* payload i was put, fetched, and its worker has finished the iteration
Finished(i) ==
    /\ i < put_next
    /\ i \notin Range(src_queue)
    /\ \A w \in Workers : wdata[w] # i

\* C1: once all workers of a node wired to the accept-all destination B
\* have terminated, every payload put before end() has exactly one value
\* (result or error value) enqueued to B, and nothing else was enqueued.
C1_NoLossNoDuplication ==
    (AllWorkersDone /\ InDst("B")) =>
        /\ \A i \in Items :
              DeliveredFor("B", i) = IF i < put_next THEN 1 ELSE 0
        /\ BagCardinality(delivered["B"]) = put_next - 1
C1_Witness ==
    /\ AllWorkersDone
    /\ dst_nodes = <<"B">>
    /\ worker_num = MaxWorkers
    /\ put_next - 1 = MaxItems
    /\ BagCardinality(delivered["B"]) = MaxItems

\* C2: the input queue never holds more than queue_size entries; a put()
\* suspends only on a full queue and without enqueuing, completes at once
\* otherwise, and a suspended put() stays suspended while the queue is full.
C2_Backpressure ==
    /\ [](Len(src_queue) <= queue_size)
    /\ [][/\ (~put_blocked /\ put_blocked') =>
                (Len(src_queue) = queue_size /\ src_queue' = src_queue)
          /\ (~put_blocked /\ put_next' # put_next) =>
                (Len(src_queue) < queue_size /\ ~put_blocked')
          /\ (put_blocked /\ Len(src_queue) = queue_size) =>
                (put_blocked' /\ put_next' = put_next)
          /\ (put_blocked /\ ~put_blocked') =>
                (Len(src_queue) < queue_size /\ put_next' = put_next + 1)
         ]_vars
C2_Witness ==
    /\ put_blocked
    /\ Len(src_queue) = queue_size
    /\ is_start

AlwaysFails(i) == \A n \in 1..RetryAttempts : proc_func(i, n) = "raise"

\* C3: a payload whose transform fails at every attempt has the transform
\* called exactly 5 times; the worker then holds the error value naming the
\* payload and the node as its result, that value is enqueued exactly once
\* to every wired destination that accepts it, and no worker has ended
\* unless the generator was finished by a stop token.
C3_RetryThenErrorValue ==
    /\ \A i \in Items : AlwaysFails(i) =>
          /\ invocations[i] <= RetryAttempts
          /\ \A w \in Workers : (wpc[w] = "put" /\ wdata[w] = i) =>
                /\ invocations[i] = RetryAttempts
                /\ wresult[w] = RetryErrorOf(i)
          /\ (is_start /\ Finished(i)) =>
                /\ invocations[i] = RetryAttempts
                /\ \A d \in Dst :
                      /\ DeliveredFor(d, i) = CopiesIn(RetryErrorOf(i), delivered[d])
                      /\ DeliveredFor(d, i) =
                            IF InDst(d) /\ criteria(d, RetryErrorOf(i))
                            THEN 1 ELSE 0
    /\ \A w \in Workers : wpc[w] = "done" => get_data_generator = "dead"
C3_Witness ==
    /\ worker_num = 1
    /\ Finished(1) /\ Finished(2)
    /\ AlwaysFails(1)
    /\ invocations[1] = RetryAttempts
    /\ CopiesIn(RetryErrorOf(1), delivered["B"]) = 1
    /\ DeliveredFor("B", 2) = 1

BadWiring ==
    \/ no_output /\ Len(dst_nodes) > 0
    \/ ~no_output /\ Len(dst_nodes) = 0

\* C4: start() on a no_output node with a destination, or on a node with
\* output and no destination, fails validation, spawns no worker and
\* leaves the node not running.
C4_StartValidation ==
    (start_result # "none" /\ BadWiring) =>
        /\ start_result = "AssertionError"
        /\ tasks = {}
        /\ ~is_start
        /\ \A w \in Workers : wpc[w] = "none"
C4_Witness ==
    /\ start_result = "AssertionError"
    /\ no_output
    /\ Len(dst_nodes) > 0

NumDone == Cardinality({w \in tasks : wpc[w] = "done"})

\* C10: every terminated worker was ended by a stop token of its own, so
\* no more workers have terminated than stop tokens were dequeued, and
\* once all workers have terminated worker_num stop tokens were dequeued
\* and none is left in the queue.
C10_OneStopPerWorker ==
    /\ NumDone <= stops_dequeued
    /\ AllWorkersDone =>
          /\ stops_dequeued = worker_num
          /\ StopToken \notin Range(src_queue)

\* C11: on a started node whose transform always returns and whose
\* destinations are drained, a call of end() eventually returns, with every
\* worker of the node terminated.
C11_EndTerminates ==
    (end_pc # "idle") ~> (end_pc = "returned" /\ AllWorkersDone)

\* C12: only the stop signal ends a worker: a worker has terminated, and
\* the fetch generator the workers share has finished, only after a stop
\* token was dequeued; an exception of the fetch, transform or put stage
\* leaves every worker fetching the items queued after it.
C12_OnlyStopEndsWorker ==
    /\ \A w \in Workers : wpc[w] = "done" => stops_dequeued >= 1
    /\ get_data_generator = "dead" => stops_dequeued >= 1

\* the values the node can make from a payload
PayloadResults == UNION {ResultsFor(i) : i \in Items}

\* C13: a stop token taken from the queue is never handed to a worker,
\* never registered in executing_data_queue, never given to the transform,
\* and nothing but values made from payloads is enqueued to a destination.
C13_StopTokensStayInside ==
    /\ StopToken \notin Range(handed)
    /\ StopToken \notin Range(executing_data_queue)
    /\ \A w \in Workers :
          wpc[w] \in {"proc", "put"} => wdata[w] \in Items
    /\ \A d \in AllDst :
          /\ Range(dst_queue[d]) \subseteq PayloadResults
          /\ BagToSet(delivered[d]) \subseteq PayloadResults
C13_Witness ==
    /\ stops_dequeued >= 1
    /\ AllWorkersDone
    /\ Len(handed) = MaxItems
    /\ dst_queue["B"] # <<>>

RECURSIVE FinalResultFrom(_, _)
FinalResultFrom(i, n) ==
    LET r == final_wrapper(i, n)
    IN IF r = Retry THEN FinalResultFrom(i, n + 1) ELSE r
\* the value the transform stage ends with for payload i
FinalResult(i) == FinalResultFrom(i, 1)

\* C14: for every payload a worker has finished with and every destination
\* d of the node, the result was enqueued to d exactly once if d's
\* predicate is true of it and not at all otherwise, whatever the other
\* destinations' predicates do.
C14_FanOutRouting ==
    \A i \in Items : (i \in Range(handed) /\ Finished(i)) =>
        \A d \in AllDst :
            /\ DeliveredFor(d, i) = CopiesIn(FinalResult(i), delivered[d])
            /\ DeliveredFor(d, i) =
                  IF InDst(d) /\ criteria(d, FinalResult(i)) THEN 1 ELSE 0

\* the payloads waiting in the queue, oldest first
QueuedPayloads == SelectSeq(src_queue, LAMBDA x : ~IsStop(x))

\* C15: at most one worker is inside the fetch stage, and it is the holder
\* of the fetch lock; the payloads, enqueued as 1, 2, ..., are handed to
\* the workers and registered in executing_data_queue in that order, so
\* the payloads handed out followed by those still queued are the payloads
\* put, in the order put.
C15_SerializedFetch ==
    /\ Cardinality({w \in Workers : wpc[w] = "fetch"}) <= 1
    /\ \A w \in Workers : wpc[w] = "fetch" <=> get_data_lock = w
    /\ handed \o QueuedPayloads = [k \in 1..(put_next - 1) |-> k]
    /\ \A j, k \in 1..Len(executing_data_queue) :
          j < k => executing_data_queue[j] < executing_data_queue[k]
C15_Witness ==
    /\ \E w, v \in Workers : wpc[w] = "fetch" /\ wpc[v] = "proc"
    /\ Len(handed) >= 2
    /\ Len(executing_data_queue) = 1

\* the payloads of the workers that are between the registration of
\* line 161 and the removal of line 166
InProgress == {wdata[w] : w \in {v \in Workers : wpc[v] \in {"proc", "put"}}}

\* C16: executing_data_queue never holds more than worker_num items; it
\* holds exactly the item of each worker that is in its transform or put
\* stage, once, so a worker back at the top of its loop has its item
\* removed, also after the put stage raised; after end() has returned it
\* is empty.
C16_InFlightBookkeeping ==
    /\ Len(executing_data_queue) <= worker_num
    /\ Range(executing_data_queue) = InProgress
    /\ Len(executing_data_queue) = Cardinality(InProgress)
    /\ Len(executing_data_queue) =
          Cardinality({w \in Workers : wpc[w] \in {"proc", "put"}})
    /\ end_pc = "returned" => executing_data_queue = <<>>
C16_Witness ==
    /\ dst_nodes = <<RaisingDst, "B">>
    /\ worker_num = MaxWorkers
    /\ 1 \in Range(handed) /\ Finished(1)
    /\ FinalResult(1).kind = "error"
    /\ end_pc = "returned"
    /\ executing_data_queue = <<>>

\* the transform raises StopIteration on payload i
RaisesStop(i) == proc_func(i, 1) = "stop"
\* the error value made from that StopIteration
StopErrorOf(i) == NodeProcessingError(i, NodeName, "StopIteration")

\* C20: a payload on which the transform raises StopIteration has the
\* transform called exactly once; the worker then holds the error value
\* naming the payload and the node, that value is enqueued once to every
\* wired destination that accepts it, and no worker has ended unless a
\* stop token was taken from the queue.
C20_StopFromTransform ==
    /\ \A i \in Items : RaisesStop(i) =>
          /\ invocations[i] <= 1
          /\ \A w \in Workers : (wpc[w] = "put" /\ wdata[w] = i) =>
                /\ invocations[i] = 1
                /\ wresult[w] = StopErrorOf(i)
          /\ (i \in Range(handed) /\ Finished(i)) =>
                /\ invocations[i] = 1
                /\ \A d \in Dst :
                      /\ DeliveredFor(d, i) = CopiesIn(StopErrorOf(i), delivered[d])
                      /\ DeliveredFor(d, i) =
                            IF InDst(d) /\ criteria(d, StopErrorOf(i))
                            THEN 1 ELSE 0
    /\ \A w \in Workers : wpc[w] = "done" => stops_dequeued >= 1
C20_Witness ==
    /\ \E i \in Items :
          /\ RaisesStop(i)
          /\ i \in Range(handed) /\ Finished(i)
          /\ invocations[i] = 1
          /\ CopiesIn(StopErrorOf(i), delivered["B"]) = 1
    /\ stops_dequeued = 0
    /\ \E w \in Workers : wpc[w] = "fetch"

(***************************************************************************)
(* Claims about Graph, checked under SpecGraph.                            *)
(***************************************************************************)
Members == 1..g_size

RECURSIVE ReachableIn(_, _, _)
\* b can be reached from a along at most k edges (k >= 1)
ReachableIn(a, b, k) ==
    \/ b \in g_dst[a]
    \/ k > 1 /\ \E c \in g_dst[a] : ReachableIn(c, b, k - 1)
\* the wiring of the member nodes has a cycle (a self-loop included)
HasCycle == \E n \in Members : ReachableIn(n, n, g_size)

\* order is a topological order of the member nodes
IsTopologicalOrder(order) ==
    /\ Len(order) = g_size
    /\ \A n \in Members : \E k \in 1..Len(order) : order[k] = n
    /\ \A i, j \in 1..Len(order) :
          (order[j] \in g_dst[order[i]]) => i < j

\* C5: on a cyclic wiring Graph.start() fails with the cycle validation
\* error of the topological ordering, and no worker of a member is spawned.
C5_CycleRejected ==
    (g_result # "none" /\ HasCycle) =>
        /\ g_result = CycleError
        /\ g_spawned = {}

\* C6: on an acyclic wiring topological_sort succeeds, and the order it
\* returns, the one the members are started in, holds every registered
\* node once with every node before each of its destinations.
C6_TopologicalOrder ==
    (g_result # "none" /\ ~HasCycle) =>
        /\ g_result = "ok"
        /\ IsTopologicalOrder(g_all_nodes)
        /\ g_spawned = Members

(***************************************************************************)
(* Claims about the wiring, checked under SpecWire.                        *)
(***************************************************************************)
\* b is registered as a destination of a
IsDestination(a, b) == w_dst[a][FuncName(b)] = b
\* a is registered as a source of b
IsSource(b, a) == w_src[b][FuncName(a)] = a

\* C17: after any sequence of set_destination calls, node b is registered
\* as a destination of node a exactly when node a is registered as a source
\* of node b.
C17_BidirectionalEdges ==
    \A a, b \in WireNodes : IsDestination(a, b) <=> IsSource(b, a)

(***************************************************************************)
(* Claims about the proc-decorator chain, checked under SpecDec.           *)
(***************************************************************************)
Outermost == {label_proc_decorator, skip_data_decorator}
\* the entries of list that are not label propagation or skip filtering
OtherDecorators(list) == SelectSeq(list, LAMBDA d : d \notin Outermost)
\* how many times decorator occurs in list
Occurrences(decorator, list) ==
    Cardinality({k \in 1..Len(list) : list[k] = decorator})

\* C18: in the finalized chain every entry that is the label-propagation
\* or the skip-filtering decorator comes after, so is applied outside,
\* every other entry; the other decorators keep their registration order;
\* and every decorator occurs as often as it was registered.
C18_OutermostDecorators ==
    pd_setup =>
        /\ \A j, k \in 1..Len(proc_decorators) :
              (proc_decorators[j] \in Outermost
                  /\ proc_decorators[k] \notin Outermost) => k < j
        /\ OtherDecorators(proc_decorators) = OtherDecorators(pd_registered)
        /\ \A d \in Decorators :
              Occurrences(d, proc_decorators) = Occurrences(d, pd_registered)

(***************************************************************************)
(* Claims about IterablePipeline, checked under SpecIter and FairSpecIter. *)
(***************************************************************************)
Ingested(inp) == generate_label(inp) \in DOMAIN processing_tasks
TaskOf(inp) == processing_tasks[generate_label(inp)]
\* how many inputs of content inp the head has taken from its queue
Ingests(inp) ==
    CopiesIn(inp, ip_fed)
        - Cardinality({k \in 1..Len(ip_queue) : ip_queue[k] = inp})
\* the slots an input of content inp has
Slots(inp) == 0..(Len(inp) - 1)
\* how many fragments of slot j of inputs of content inp are on their way
InFlightCount(inp, j) ==
    CopiesIn(FragmentData(inp[j + 1], generate_label(inp), j), ip_inflight)
\* positions of ip_forwarded holding an aggregate for input inp
AggregatesFor(inp) ==
    {k \in 1..Len(ip_forwarded) :
        /\ ip_forwarded[k].kind = "aggregate"
        /\ ip_forwarded[k].label = generate_label(inp)}
\* the source of inp was seen exhausted, every element has a slot and every
\* slot's result was recorded at the tail
AllRecorded(inp) ==
    /\ Ingested(inp)
    /\ TaskOf(inp).is_generator_exhausted
    /\ TaskOf(inp).index = Len(inp)
    /\ \A j \in Slots(inp) :
          InFlightCount(inp, j) = 0 /\ ip_recorded[inp][j] = Ingests(inp)

\* how many inputs of content inp had their source observed exhausted:
\* all the ingested ones, but for the last while it is being drawn
Exhausted(inp) ==
    IF ~Ingested(inp) THEN 0
    ELSE IF TaskOf(inp).is_generator_exhausted THEN Ingests(inp)
    ELSE Ingests(inp) - 1

\* C7: the tail decorator forwards only aggregates, at most one per
\* ingested input, and the aggregates forwarded for the inputs of one
\* content are no more than the inputs whose source was observed
\* exhausted, and no more than the results recorded for any of their slots.
C7_EmissionSafety ==
    /\ \A k \in 1..Len(ip_forwarded) : ip_forwarded[k].kind = "aggregate"
    /\ \A inp \in IterInputs :
          /\ Cardinality(AggregatesFor(inp)) <= Ingests(inp)
          /\ Cardinality(AggregatesFor(inp)) <= Exhausted(inp)
          /\ \A j \in Slots(inp) :
                Cardinality(AggregatesFor(inp)) <= ip_recorded[inp][j]

\* C8: every forwarded aggregate pairs the original input with the
\* transformed results of its elements in slot order, tagged with the
\* task's token.
C8_AggregateContent ==
    \A k \in 1..Len(ip_forwarded) :
        LET e == ip_forwarded[k] IN
        e.kind = "aggregate" =>
            /\ e.data[2] = [j \in 1..Len(e.data[1]) |-> pipeline_func(e.data[1][j])]
            /\ e.label = generate_label(e.data[1])

\* the draws made so far from the input of content inp that was ingested
\* last: inputs are flattened one after the other, so an input that is not
\* the current one was drawn to its end
Draws(inp) == IF ip_cur = inp THEN ip_pos ELSE Len(inp)
\* the slot indices of the fragments of inp that are on their way
InFlightSlots(inp) == {j \in Slots(inp) : InFlightCount(inp, j) > 0}

\* C19: for the task of an input of n elements, the k-th draw got slot
\* index k-1: after k draws the counter is k, the slots issued are exactly
\* 0..k-1, each issued once (next to the slots of the inputs of the same
\* content ingested before, each issued once per input), every issued slot
\* is registered, as None while no result was recorded for it, and the
\* exhausted flag is set exactly when k = n.
C19_SlotIssuance ==
    \A inp \in IterInputs : Ingested(inp) =>
        LET task == TaskOf(inp)
            k == Draws(inp)
        IN /\ task.index = k
           /\ 0..(k - 1) \subseteq dict_keys(task.over_results)
           /\ \A j \in dict_keys(task.over_results) :
                 j \in 0..(k - 1) \/ (j \in Slots(inp) /\ ip_recorded[inp][j] > 0)
           /\ \A j \in Slots(inp) :
                 InFlightCount(inp, j) + ip_recorded[inp][j]
                    = (Ingests(inp) - 1) + (IF j < k THEN 1 ELSE 0)
           /\ \A g \in BagToSet(ip_inflight) :
                 g.label.task = generate_label(inp) => g.label.index \in Slots(inp)
           /\ \A j \in 0..(MaxLen - 1) \ Slots(inp) : ip_recorded[inp][j] = 0
           /\ \A j \in 0..(k - 1) :
                 ip_recorded[inp][j] = 0 =>
                     dict_getitem(task.over_results, j) = PyNone
           /\ task.is_generator_exhausted <=> (k = Len(inp))
C19_Witness ==
    \E inp, other \in IterInputs :
        /\ Len(inp) = MaxLen
        /\ Ingested(inp)
        /\ TaskOf(inp).index = MaxLen
        /\ TaskOf(inp).is_generator_exhausted
        /\ InFlightSlots(inp) = 0..(MaxLen - 1)
        /\ Ingested(other)
        /\ TaskOf(other).index = 1
        /\ Len(other) > 1
        /\ ~TaskOf(other).is_generator_exhausted

\* C9: once every element of an input has a slot and every slot's result,
\* whatever its value, was recorded at the tail, an aggregate for the
\* input is eventually forwarded.
C9_CompletionLiveness ==
    \A inp \in IterInputs :
        [](AllRecorded(inp) => <>(AggregatesFor(inp) # {}))
====
